---- MODULE Spec2Model ----
(***************************************************************************)
(* Gallery Search Worker (src/workers/gallery-search/index.js).            *)
(*                                                                         *)
(* The worker is modelled as a state machine over the Vectorize index and  *)
(* the requests in flight.  A request advances from one `await` of a       *)
(* backend call (env.AI.run, env.GALLERY_INDEX.upsert/query) to the next;  *)
(* each backend call either resolves or rejects.                           *)
(*                                                                         *)
(* Strings are sequences of one-character strings, so that split, trim and *)
(* join are computed as the JavaScript computes them.                      *)
(*                                                                         *)
(* Two clients of the worker are modelled beside it, each with its own     *)
(* specification: one run of scripts/sync-gallery-tags.js (SyncSpec) and   *)
(* the Gallery object of js/gallery.js (GallerySpec).  Spec serves the     *)
(* worker's requests one after the other, ConcSpec interleaves them.       *)
(***************************************************************************)
EXTENDS Integers, Sequences, FiniteSets, TLC

(***************************************************************************)
(* Bounds of the model.                                                    *)
(***************************************************************************)
\* longest images array of an /index-batch body
MaxBatch == 25
\* number of requests a request slot serves in one behaviour
MaxRequests == 1
\* request slots (requests that can be in flight together)
NumReqs == 2
\* longest tag list the sync script is given
MaxTags == 2
\* number of things the visitor of the gallery page does
MaxActions == 3

\* const batchSize = 10
batchSize == 10

Reqs == 1..NumReqs

(***************************************************************************)
(* JavaScript values of the request bodies: undefined, a string, an array. *)
(***************************************************************************)
Undef == [t |-> "undefined", s |-> <<>>, a |-> <<>>]
Str(s) == [t |-> "string", s |-> s, a |-> <<>>]
Arr(a) == [t |-> "array", s |-> <<>>, a |-> a]

\* Array.isArray(v)
IsArray(v) == v.t = "array"

\* !v  (undefined and '' are falsy; a non-empty string and any array are truthy)
Falsy(v) == v.t = "undefined" \/ (v.t = "string" /\ Len(v.s) = 0)

\* v || ''   for v undefined or a string
OrEmpty(v) == IF Falsy(v) THEN <<>> ELSE v.s

\* parts.filter(Boolean) on an array of strings
FilterBoolean(parts) == SelectSeq(parts, LAMBDA p : Len(p) > 0)

\* parts.join(sep)
RECURSIVE Join(_, _)
Join(parts, sep) ==
  IF Len(parts) = 0 THEN <<>>
  ELSE IF Len(parts) = 1 THEN parts[1]
  ELSE parts[1] \o sep \o Join(Tail(parts), sep)

\* s.split(',')   (''.split(',') is [''])
RECURSIVE Split(_)
Split(s) ==
  IF Len(s) = 0 THEN << <<>> >>
  ELSE LET rest == Split(Tail(s))
       IN IF Head(s) = "," THEN << <<>> >> \o rest
          ELSE << <<Head(s)>> \o Head(rest) >> \o Tail(rest)

RECURSIVE TrimStart(_)
TrimStart(s) ==
  IF Len(s) > 0 /\ Head(s) = " " THEN TrimStart(Tail(s)) ELSE s

RECURSIVE TrimEnd(_)
TrimEnd(s) ==
  IF Len(s) > 0 /\ s[Len(s)] = " " THEN TrimEnd(SubSeq(s, 1, Len(s) - 1)) ELSE s

\* t.trim()
Trim(s) == TrimEnd(TrimStart(s))

\* (tags || '').split(',').map(t => t.trim())
SplitTags(tags) ==
  LET segs == Split(OrEmpty(tags))
  IN [k \in 1..Len(segs) |-> Trim(segs[k])]

\* tags that are trimmed whatever their shape
StoredTagsTrimmed(tags) ==
  LET raw == IF IsArray(tags) THEN tags.a ELSE Split(OrEmpty(tags))
  IN [k \in 1..Len(raw) |-> Trim(raw[k])]

\* metadata.tags: Array.isArray(tags) ? tags : (tags || '').split(',').map(t => t.trim())
StoredTags(tags) == IF IsArray(tags) THEN tags.a ELSE SplitTags(tags)

\* Array.isArray(tags) ? tags.join(' ') : (tags || '')
TagsText(tags) == IF IsArray(tags) THEN Join(tags.a, <<" ">>) ELSE OrEmpty(tags)

\* the text without the project
TextWithoutProject(img) ==
  Join(FilterBoolean(<< OrEmpty(img.caption), OrEmpty(img.alt), TagsText(img.tags) >>),
       <<".", " ">>)

\* [caption || '', alt || '', <tags text>, project || ''].filter(Boolean).join('. ')
TextForEmbedding(img) ==
  Join(FilterBoolean(<< OrEmpty(img.caption), OrEmpty(img.alt),
                        TagsText(img.tags), OrEmpty(img.project) >>),
       <<".", " ">>)

\* the metadata object built for an image
Metadata(img) ==
  [tags    |-> StoredTags(img.tags),
   alt     |-> OrEmpty(img.alt),
   caption |-> OrEmpty(img.caption),
   project |-> OrEmpty(img.project),
   src     |-> OrEmpty(img.src),
   thumb   |-> OrEmpty(img.thumb)]


(***************************************************************************)
(* Backends.  The embedding model is an opaque function of the text; the   *)
(* vector of a text is represented by the text it was computed from.       *)
(* The Vectorize index is an ordered list of records, one per id.          *)
(***************************************************************************)
\* one vector of embeddingResult.data
Embedding(text) == [of |-> text]

\* embeddingResult.data of env.AI.run(EMBEDDING_MODEL, {text: texts})
EmbeddingData(texts) == [k \in 1..Len(texts) |-> Embedding(texts[k])]

\* an upsert that replaces the whole index by the record
UpsertOneOnly(idx, v) == <<v>>

\* an upsert that patches: a field the new record leaves empty keeps its old value
UpsertOnePatch(idx, v) ==
  IF \E p \in 1..Len(idx) : idx[p].id = v.id
  THEN [p \in 1..Len(idx) |->
          IF idx[p].id = v.id
          THEN [id |-> v.id, values |-> v.values,
                metadata |-> [f \in DOMAIN v.metadata |->
                                IF v.metadata[f] = <<>> THEN idx[p].metadata[f]
                                ELSE v.metadata[f]]]
          ELSE idx[p]]
  ELSE Append(idx, v)

\* upsert of one record: overwrite the record of that id, or add it
UpsertOne(idx, v) ==
  IF \E p \in 1..Len(idx) : idx[p].id = v.id
  THEN [p \in 1..Len(idx) |-> IF idx[p].id = v.id THEN v ELSE idx[p]]
  ELSE Append(idx, v)

\* an upsert that applies its records last to first
RECURSIVE UpsertReversed(_, _)
UpsertReversed(idx, vectors) ==
  IF Len(vectors) = 0 THEN idx
  ELSE UpsertReversed(UpsertOne(idx, vectors[Len(vectors)]),
                      SubSeq(vectors, 1, Len(vectors) - 1))

\* env.GALLERY_INDEX.upsert(vectors), resolved
RECURSIVE Upsert(_, _)
Upsert(idx, vectors) ==
  IF Len(vectors) = 0 THEN idx
  ELSE Upsert(UpsertOne(idx, Head(vectors)), Tail(vectors))

\* jsonResponse(data, status)
jsonResponse(data, status) == [status |-> status, body |-> data]

\* a slice that runs one image into the next chunk
SliceOverlap(images, from, to) ==
  SubSeq(images, from + 1, IF to + 1 < Len(images) THEN to + 1 ELSE Len(images))

\* a slice that stops one image short
SliceShort(images, from, to) ==
  SubSeq(images, from + 1, IF to - 1 < Len(images) THEN to - 1 ELSE Len(images))

\* images.slice(i, i + batchSize)
Slice(images, from, to) ==
  SubSeq(images, from + 1, IF to < Len(images) THEN to ELSE Len(images))

\* batch.map(img => [...].filter(Boolean).join('. '))
Texts(batch) == [k \in 1..Len(batch) |-> TextForEmbedding(batch[k])]

\* vectors that all carry the first embedding of the chunk
VectorsFirst(batch, data) ==
  [k \in 1..Len(batch) |->
     [id |-> batch[k].id, values |-> data[1], metadata |-> Metadata(batch[k])]]

\* batch.map((img, idx) => ({id: img.id, values: embeddingResult.data[idx], metadata}))
Vectors(batch, data) ==
  [k \in 1..Len(batch) |->
     [id |-> batch[k].id, values |-> data[k], metadata |-> Metadata(batch[k])]]

\* results that all carry the id of the chunk's first image
BatchResultsFirstId(batch) == [k \in 1..Len(batch) |-> [id |-> batch[1].id, success |-> TRUE]]

\* batch.map(img => ({id: img.id, success: true}))
BatchResults(batch) == [k \in 1..Len(batch) |-> [id |-> batch[k].id, success |-> TRUE]]

(***************************************************************************)
(* Request inputs.                                                         *)
(***************************************************************************)
Image(id, tags, alt, caption, project, src, thumb) ==
  [id |-> id, tags |-> tags, alt |-> alt, caption |-> caption,
   project |-> project, src |-> src, thumb |-> thumb]

\* image bodies without their id: every way of supplying or omitting the text fields
ItemShapes ==
  << Image(Undef, Str(<<"a", ",", " ", "b">>), Str(<<"x">>), Str(<<"c">>),
           Str(<<"p">>), Str(<<"s">>), Str(<<"t">>)),
     Image(Undef, Undef, Undef, Str(<<"c">>), Undef, Undef, Undef),
     Image(Undef, Undef, Str(<<"x">>), Undef, Undef, Undef, Undef),
     Image(Undef, Undef, Undef, Undef, Str(<<"p">>), Undef, Undef),
     Image(Undef, Str(<<"a">>), Undef, Undef, Undef, Undef, Undef),
     Image(Undef, Arr(<< <<"a">>, <<"b">> >>), Undef, Undef, Undef, Undef, Undef),
     Image(Undef, Str(<<"a", ",", ",", "b">>), Undef, Undef, Undef, Str(<<"s">>), Undef),
     Image(Undef, Str(<<" ", ",", " ">>), Undef, Undef, Undef, Undef, Undef),
     Image(Undef, Arr(<< <<" ", "a">>, <<"a">>, <<"a">> >>), Undef, Undef, Undef, Undef, Undef),
     Image(Undef, Arr(<< <<>> >>), Undef, Undef, Undef, Undef, Undef),
     Image(Undef, Undef, Undef, Undef, Undef, Undef, Undef),
     Image(Undef, Undef, Undef, Undef, Undef, Str(<<"s">>), Str(<<"t">>)),
     Image(Undef, Arr(<<>>), Str(<<>>), Str(<<>>), Str(<<>>), Undef, Undef),
     Image(Undef, Str(<<>>), Undef, Undef, Undef, Undef, Undef) >>

WithId(img, id) == [img EXCEPT !.id = id]

\* the id of the j-th generated image
IdOf(j) == Str(<<ToString(j)>>)

\* ids an /index body carries: none, the empty string, two real ids
IndexIds == {Undef, Str(<<>>), IdOf(1), IdOf(2)}

IndexBodies == {WithId(ItemShapes[k], id) : k \in 1..Len(ItemShapes), id \in IndexIds}

\* ids of a generated images array: all distinct, repeating with period 3
\* (duplicates inside a chunk and across chunks), or missing on the last image
IdModes == {"distinct", "cyclic", "noid"}

BatchId(mode, j, n) ==
  IF mode = "cyclic" THEN IdOf(((j - 1) % 3) + 1)
  ELSE IF mode = "noid" /\ j = n THEN Undef
  ELSE IdOf(j)

\* an images array of n images; the j-th image has the j-th shape, cyclically
Images(n, mode) ==
  [j \in 1..n |->
     WithId(ItemShapes[((j - 1) % Len(ItemShapes)) + 1], BatchId(mode, j, n))]

BatchBodies ==
  {[images |-> Arr(Images(n, mode))] : n \in 1..MaxBatch, mode \in IdModes}
    \cup {[images |-> Undef], [images |-> Str(<<"x">>)], [images |-> Arr(<<>>)]}

\* a JavaScript number
Num(n) == [t |-> "number", n |-> n]

\* query fields of a /search body: absent, empty, not a string, two texts
Queries == {Undef, Str(<<>>), Arr(<<>>), Str(<<"a">>), Str(<<"a", " ", "b">>)}

\* limit fields of a /search body: absent, below 1, inside 1..100, above 100
Limits == {Undef, Num(-3), Num(0), Num(1), Num(2), Num(100), Num(101), Num(500)}

SearchBodies == {[query |-> q, limit |-> l] : q \in Queries, l \in Limits}

\* the API key a request carries in its Authorization header: none, or the admin's
ApiKeys == {Undef, Str(<<"k">>)}

\* a request: its method, the pathname of its URL, its parsed JSON body, its API key
Request(method, path, body, key) ==
  [method |-> method, path |-> path, body |-> body, key |-> key]

\* requests that reach no handler: a preflight, the health check on both of its
\* paths, an unknown path, and a known path under another method
OtherRequests ==
  {Request("OPTIONS", "/index", Undef, Undef), Request("OPTIONS", "/nowhere", Undef, Undef),
   Request("GET", "/", Undef, Undef), Request("GET", "/health", Undef, Undef),
   Request("POST", "/health", WithId(ItemShapes[1], IdOf(1)), Undef),
   Request("GET", "/nowhere", Undef, Undef),
   Request("GET", "/index", Undef, Undef),
   Request("DELETE", "/index", WithId(ItemShapes[1], IdOf(1)), Str(<<"k">>)),
   Request("POST", "/tags", Undef, Undef)}

\* the /index bodies that are also sent with the admin's key
KeyedBodies == {WithId(ItemShapes[1], IdOf(1)), WithId(ItemShapes[11], IdOf(2))}

Requests ==
  {Request("POST", "/index", b, Undef) : b \in IndexBodies}
    \cup {Request("POST", "/index", b, k) : b \in KeyedBodies, k \in ApiKeys}
    \cup {Request("POST", "/index-batch", b, Undef) : b \in BatchBodies}
    \cup {Request("POST", "/search", b, Undef) : b \in SearchBodies}
    \cup {Request("GET", "/tags", Undef, Undef), Request("GET", "/images", Undef, Undef)}
    \cup OtherRequests

\* the route of fetch() a request takes
Route(request) ==
  IF request.method = "OPTIONS" THEN "preflight"
  ELSE IF request.path = "/search" /\ request.method = "POST" THEN "handleSearch"
  ELSE IF request.path = "/tags" /\ request.method = "GET" THEN "handleGetTags"
  ELSE IF request.path = "/images" /\ request.method = "GET" THEN "handleGetImages"
  ELSE IF request.path = "/index" /\ request.method = "POST" THEN "handleIndex"
  ELSE IF request.path = "/index-batch" /\ request.method = "POST" THEN "handleIndexBatch"
  ELSE IF request.path = "/" \/ request.path = "/health" THEN "health"
  ELSE "notFound"

(***************************************************************************)
(* State.                                                                  *)
(***************************************************************************)
VARIABLES
  index,     \* the records of GALLERY_INDEX, in the store's order
  pc,        \* per request: "idle", "embed" / "upsert" / "query" (awaiting that call), "done"
  request,   \* per request: the request being served
  i,         \* per request: loop variable i of handleIndexBatch
  results,   \* per request: results of handleIndexBatch
  calls,     \* per request: the backend calls issued, in order, with their state
  resp,      \* per request: the response returned by fetch()
  received,  \* per request: the index as it was when the request was received
  nreq,      \* per request slot: requests received so far
  sync,      \* scripts/sync-gallery-tags.js: the state of one run of the script
  gallery    \* js/gallery.js: the state of the Gallery object and of its page

vars == <<index, pc, request, i, results, calls, resp, received, nreq, sync, gallery>>

\* The index is a binding that outlives the worker: a worker starts on an empty
\* index or on one that earlier index requests have written.
SeedImages ==
  << WithId(ItemShapes[1], IdOf(1)), WithId(ItemShapes[1], IdOf(2)),
     Image(IdOf(12), Arr(<< <<"c">>, <<"b">> >>), Undef, Str(<<"c">>), Undef, Undef, Undef) >>

InitialIndexes ==
  {<<>>, Upsert(<<>>, Vectors(SeedImages, EmbeddingData(Texts(SeedImages))))}

\* the script has not been started, the page has not been loaded
NotRun == [pc |-> "off"]
NotLoaded == [pc |-> "off"]

NoRequest == Request("", "", Undef, Undef)
NoResponse == [status |-> 0, body |-> [none |-> TRUE]]

\* no request has been received
NoRequests ==
  /\ pc = [r \in Reqs |-> "idle"]
  /\ request = [r \in Reqs |-> NoRequest]
  /\ i = [r \in Reqs |-> 0]
  /\ results = [r \in Reqs |-> <<>>]
  /\ calls = [r \in Reqs |-> <<>>]
  /\ resp = [r \in Reqs |-> NoResponse]
  /\ received = [r \in Reqs |-> <<>>]
  /\ nreq = [r \in Reqs |-> 0]

Init ==
  /\ index \in InitialIndexes
  /\ NoRequests
  /\ sync = NotRun
  /\ gallery = NotLoaded

InFlight(r) == pc[r] \notin {"idle", "done"}

\* a call issued and awaited
Call(svc, arg) == [svc |-> svc, arg |-> arg, st |-> "pending"]

\* the log with its last (the awaited) call settled
Settled(log, st) == [log EXCEPT ![Len(log)].st = st]

\* fetch() receives a request in slot r
Receive(r, req) ==
  /\ ~InFlight(r)
  /\ nreq[r] < MaxRequests
  /\ nreq' = [nreq EXCEPT ![r] = nreq[r] + 1]
  /\ request' = [request EXCEPT ![r] = req]
  /\ received' = [received EXCEPT ![r] = index]

\* the request returns a response without calling a backend
Respond(r, response, log) ==
  /\ pc' = [pc EXCEPT ![r] = "done"]
  /\ resp' = [resp EXCEPT ![r] = response]
  /\ calls' = [calls EXCEPT ![r] = log]
  /\ UNCHANGED <<sync, gallery>>

\* the request issues a backend call and awaits it
Await(r, at, log) ==
  /\ pc' = [pc EXCEPT ![r] = at]
  /\ resp' = [resp EXCEPT ![r] = NoResponse]
  /\ calls' = [calls EXCEPT ![r] = log]
  /\ UNCHANGED <<sync, gallery>>

(***************************************************************************)
(* POST /index                                                             *)
(***************************************************************************)
\* a test for an absent id only
MissingIdUndefinedOnly(body) == body.id.t = "undefined"

\* if (!id)
MissingId(body) == Falsy(body.id)

\* if (!textForEmbedding)
NoText(text) == Len(text) = 0

\* handleIndex up to its first backend call
handleIndex(r, req) ==
  /\ Route(req) = "handleIndex"
  /\ Receive(r, req)
  /\ LET body == req.body
         textForEmbedding == TextForEmbedding(body)
     IN IF MissingId(body)
        THEN Respond(r, jsonResponse([error |-> "Missing \"id\" field"], 400), <<>>)
        ELSE IF NoText(textForEmbedding)
        THEN Respond(r, jsonResponse(
               [error |-> "No text content to embed (provide caption, alt, or tags)"], 400), <<>>)
        ELSE Await(r, "embed", <<Call("AI.run", <<textForEmbedding>>)>>)
  /\ i' = [i EXCEPT ![r] = 0]
  /\ results' = [results EXCEPT ![r] = <<>>]
  /\ UNCHANGED index

\* handleIndex after env.AI.run resolved: build the record and upsert it
handleIndexEmbedded(r) ==
  /\ pc[r] = "embed"
  /\ Route(request[r]) = "handleIndex"
  /\ LET body == request[r].body
         embeddingResult == EmbeddingData(calls[r][Len(calls[r])].arg)
         vector == embeddingResult[1]
         metadata == Metadata(body)
     IN Await(r, "upsert",
              Append(Settled(calls[r], "ok"),
                     Call("upsert", <<[id |-> body.id, values |-> vector, metadata |-> metadata]>>)))
  /\ UNCHANGED <<index, request, i, results, received, nreq>>

\* handleIndex after env.GALLERY_INDEX.upsert resolved
handleIndexUpserted(r) ==
  /\ pc[r] = "upsert"
  /\ Route(request[r]) = "handleIndex"
  /\ index' = Upsert(index, calls[r][Len(calls[r])].arg)
  /\ Respond(r, jsonResponse([success |-> TRUE, id |-> request[r].body.id], 200),
             Settled(calls[r], "ok"))
  /\ UNCHANGED <<request, i, results, received, nreq>>

(***************************************************************************)
(* POST /index-batch                                                       *)
(***************************************************************************)
\* a loop head that starts the embedding of the next chunk together with this one's
BatchLoopPrefetch(r, images, from, res, log) ==
  IF from < Len(images)
  THEN Await(r, "embed",
             IF from + batchSize < Len(images)
             THEN Append(Append(log,
                    Call("AI.run", Texts(Slice(images, from + batchSize, from + 2 * batchSize)))),
                    Call("AI.run", Texts(Slice(images, from, from + batchSize))))
             ELSE Append(log, Call("AI.run", Texts(Slice(images, from, from + batchSize)))))
  ELSE Respond(r, jsonResponse([success |-> TRUE, indexed |-> Len(res), results |-> res], 200),
               log)

\* one pass of the for loop's head: the loop test, then the chunk's texts and AI.run
BatchLoop(r, images, from, res, log) ==
  IF from < Len(images)
  THEN Await(r, "embed",
             Append(log, Call("AI.run", Texts(Slice(images, from, from + batchSize)))))
  ELSE Respond(r, jsonResponse([success |-> TRUE, indexed |-> Len(res), results |-> res], 200),
               log)

\* a test that forgets the empty array
EmptyBatchNotArrayOnly(images) == ~IsArray(images)

\* if (!Array.isArray(images) || images.length === 0)
EmptyBatch(images) == ~IsArray(images) \/ Len(images.a) = 0

\* handleIndexBatch up to its first backend call
handleIndexBatch(r, req) ==
  /\ Route(req) = "handleIndexBatch"
  /\ Receive(r, req)
  /\ LET images == req.body.images
     IN IF EmptyBatch(images)
        THEN Respond(r, jsonResponse([error |-> "Missing or empty \"images\" array"], 400), <<>>)
        ELSE BatchLoop(r, images.a, 0, <<>>, <<>>)
  /\ i' = [i EXCEPT ![r] = 0]
  /\ results' = [results EXCEPT ![r] = <<>>]
  /\ UNCHANGED index

\* handleIndexBatch after env.AI.run resolved: build the chunk's vectors and upsert them
handleIndexBatchEmbedded(r) ==
  /\ pc[r] = "embed"
  /\ Route(request[r]) = "handleIndexBatch"
  /\ LET batch == Slice(request[r].body.images.a, i[r], i[r] + batchSize)
         embeddingResult == EmbeddingData(calls[r][Len(calls[r])].arg)
     IN Await(r, "upsert",
              Append(Settled(calls[r], "ok"), Call("upsert", Vectors(batch, embeddingResult))))
  /\ UNCHANGED <<index, request, i, results, received, nreq>>

\* a handler whose results array is shared with the neighbouring request
handleIndexBatchUpsertedShared(r) ==
  /\ pc[r] = "upsert"
  /\ Route(request[r]) = "handleIndexBatch"
  /\ LET images == request[r].body.images.a
         batch == Slice(images, i[r], i[r] + batchSize)
         res == results[IF r = 1 THEN 2 ELSE 1] \o results[r] \o BatchResults(batch)
     IN /\ index' = Upsert(index, calls[r][Len(calls[r])].arg)
        /\ results' = [results EXCEPT ![r] = res]
        /\ i' = [i EXCEPT ![r] = i[r] + batchSize]
        /\ BatchLoop(r, images, i[r] + batchSize, res, Settled(calls[r], "ok"))
  /\ UNCHANGED <<request, received, nreq>>

\* handleIndexBatch after env.GALLERY_INDEX.upsert resolved: record the chunk, go on
handleIndexBatchUpserted(r) ==
  /\ pc[r] = "upsert"
  /\ Route(request[r]) = "handleIndexBatch"
  /\ LET images == request[r].body.images.a
         batch == Slice(images, i[r], i[r] + batchSize)
         res == results[r] \o BatchResults(batch)
     IN /\ index' = Upsert(index, calls[r][Len(calls[r])].arg)
        /\ results' = [results EXCEPT ![r] = res]
        /\ i' = [i EXCEPT ![r] = i[r] + batchSize]
        /\ BatchLoop(r, images, i[r] + batchSize, res, Settled(calls[r], "ok"))
  /\ UNCHANGED <<request, received, nreq>>

(***************************************************************************)
(* The query side of the index.  The store ranks as it pleases: a match    *)
(* list is the first topK records in the store's order, and a score is     *)
(* represented by the two vectors it was computed from.  A topK below 1 is *)
(* outside the store's contract: such a query does not resolve.            *)
(***************************************************************************)
\* limit = 20
DefaultLimit == 20

\* Math.min(limit, 100)
MaxTopK == 100

\* topK: 10000
ListAllTopK == 10000

\* new Array(768).fill(0)
dummyVector == [dim |-> 768, fill |-> 0]

\* the similarity of a stored vector to the query vector
Score(queryVector, values) == [q |-> queryVector, v |-> values]

\* the store answers the query
Resolves(arg) == arg.topK >= 1

\* results.matches of env.GALLERY_INDEX.query(vector, {topK, returnMetadata: 'all'})
Matches(idx, arg) ==
  [k \in 1..(IF arg.topK < Len(idx) THEN arg.topK ELSE Len(idx)) |->
     [id |-> idx[k].id, score |-> Score(arg.vector, idx[k].values),
      metadata |-> idx[k].metadata]]

\* the log with its last (the awaited) call resolved to ret
Returned(log, ret) ==
  [c \in 1..Len(log) |->
     IF c = Len(log)
     THEN [svc |-> log[c].svc, arg |-> log[c].arg, st |-> "ok", ret |-> ret]
     ELSE log[c]]

\* the request's locals of handleIndexBatch are not in use
NoLoop(r) ==
  /\ i' = [i EXCEPT ![r] = 0]
  /\ results' = [results EXCEPT ![r] = <<>>]

(***************************************************************************)
(* POST /search                                                            *)
(***************************************************************************)
\* a test that forgets the type of the query
InvalidQueryFalsyOnly(query) == Falsy(query)

\* if (!query || typeof query !== 'string')
InvalidQuery(query) == Falsy(query) \/ query.t # "string"

\* const { query, limit = 20 } = body
LimitOf(body) == IF body.limit.t = "undefined" THEN DefaultLimit ELSE body.limit.n

\* topK: Math.min(limit, 100)
TopK(limit) == IF limit < MaxTopK THEN limit ELSE MaxTopK

\* a mapping that returns the matches best-last
SearchResultsReversed(matches) ==
  [k \in 1..Len(matches) |->
     [id |-> matches[Len(matches) + 1 - k].id,
      score |-> matches[Len(matches) + 1 - k].score,
      metadata |-> matches[Len(matches) + 1 - k].metadata]]

\* results.matches.map(match => ({id, score, metadata: match.metadata || {}}))
SearchResults(matches) ==
  [k \in 1..Len(matches) |->
     [id |-> matches[k].id, score |-> matches[k].score, metadata |-> matches[k].metadata]]

\* handleSearch up to its first backend call
handleSearch(r, req) ==
  /\ Route(req) = "handleSearch"
  /\ Receive(r, req)
  /\ IF InvalidQuery(req.body.query)
     THEN Respond(r, jsonResponse([error |-> "Missing or invalid \"query\" field"], 400), <<>>)
     ELSE Await(r, "embed", <<Call("AI.run", <<req.body.query.s>>)>>)
  /\ NoLoop(r)
  /\ UNCHANGED index

\* handleSearch after env.AI.run resolved: query the index
handleSearchEmbedded(r) ==
  /\ pc[r] = "embed"
  /\ Route(request[r]) = "handleSearch"
  /\ LET embeddingResult == EmbeddingData(calls[r][Len(calls[r])].arg)
         queryVector == embeddingResult[1]
     IN Await(r, "query",
              Append(Settled(calls[r], "ok"),
                     Call("query", [vector |-> queryVector,
                                    topK |-> TopK(LimitOf(request[r].body)),
                                    returnMetadata |-> "all"])))
  /\ UNCHANGED <<index, request, i, results, received, nreq>>

\* handleSearch after env.GALLERY_INDEX.query resolved
handleSearchQueried(r) ==
  /\ pc[r] = "query"
  /\ Route(request[r]) = "handleSearch"
  /\ Resolves(calls[r][Len(calls[r])].arg)
  /\ LET matches == Matches(index, calls[r][Len(calls[r])].arg)
     IN Respond(r, jsonResponse(SearchResults(matches), 200), Returned(calls[r], matches))
  /\ UNCHANGED <<index, request, i, results, received, nreq>>

(***************************************************************************)
(* GET /tags and GET /images                                               *)
(***************************************************************************)
\* UTF-16 code units of the characters in use
CharCode ==
  " " :> 32 @@ "," :> 44 @@ "." :> 46 @@ "a" :> 97 @@ "b" :> 98 @@ "c" :> 99
    @@ "p" :> 112 @@ "s" :> 115 @@ "t" :> 116 @@ "x" :> 120

\* a < b in the order of Array.prototype.sort() on strings
RECURSIVE Before(_, _)
Before(a, b) ==
  IF Len(b) = 0 THEN FALSE
  ELSE IF Len(a) = 0 THEN TRUE
  ELSE IF CharCode[Head(a)] # CharCode[Head(b)] THEN CharCode[Head(a)] < CharCode[Head(b)]
  ELSE Before(Tail(a), Tail(b))

\* [...tagSet].sort()
RECURSIVE Sorted(_)
Sorted(tagSet) ==
  IF tagSet = {} THEN <<>>
  ELSE LET first == CHOOSE t \in tagSet : \A u \in tagSet \ {t} : Before(t, u)
       IN <<first>> \o Sorted(tagSet \ {first})

\* tagSet after the loop over results.matches (the stored tags are arrays)
TagSet(matches) ==
  UNION {{matches[k].metadata.tags[q] : q \in 1..Len(matches[k].metadata.tags)} :
           k \in 1..Len(matches)}

\* a sort with the comparison the wrong way round
TagsBodyDescending(matches) ==
  LET up == Sorted(TagSet(matches))
  IN [k \in 1..Len(up) |-> up[Len(up) + 1 - k]]

\* the body of the /tags response
TagsBody(matches) == Sorted(TagSet(matches))

\* an entry without the caption
ImageEntryNoCaption(match) ==
  [f \in ({"id"} \cup DOMAIN match.metadata) \ {"caption"} |->
     IF f \in DOMAIN match.metadata THEN match.metadata[f] ELSE match.id]

\* {id: match.id, ...match.metadata}
ImageEntry(match) ==
  [f \in {"id"} \cup DOMAIN match.metadata |->
     IF f \in DOMAIN match.metadata THEN match.metadata[f] ELSE match.id]

\* results.matches.map(match => ({id: match.id, ...match.metadata}))
ImageEntries(matches) == [k \in 1..Len(matches) |-> ImageEntry(matches[k])]

\* the list-all query of handleGetTags and handleGetImages
ListAll == Call("query", [vector |-> dummyVector, topK |-> ListAllTopK, returnMetadata |-> "all"])

\* handleGetTags up to its query
handleGetTags(r, req) ==
  /\ Route(req) = "handleGetTags"
  /\ Receive(r, req)
  /\ Await(r, "query", <<ListAll>>)
  /\ NoLoop(r)
  /\ UNCHANGED index

\* handleGetTags after the query resolved
handleGetTagsQueried(r) ==
  /\ pc[r] = "query"
  /\ Route(request[r]) = "handleGetTags"
  /\ Resolves(calls[r][Len(calls[r])].arg)
  /\ LET matches == Matches(index, calls[r][Len(calls[r])].arg)
     IN Respond(r, jsonResponse(TagsBody(matches), 200), Returned(calls[r], matches))
  /\ UNCHANGED <<index, request, i, results, received, nreq>>

\* handleGetImages up to its query
handleGetImages(r, req) ==
  /\ Route(req) = "handleGetImages"
  /\ Receive(r, req)
  /\ Await(r, "query", <<ListAll>>)
  /\ NoLoop(r)
  /\ UNCHANGED index

\* handleGetImages after the query resolved
handleGetImagesQueried(r) ==
  /\ pc[r] = "query"
  /\ Route(request[r]) = "handleGetImages"
  /\ Resolves(calls[r][Len(calls[r])].arg)
  /\ LET matches == Matches(index, calls[r][Len(calls[r])].arg)
     IN Respond(r, jsonResponse(ImageEntries(matches), 200), Returned(calls[r], matches))
  /\ UNCHANGED <<index, request, i, results, received, nreq>>

(***************************************************************************)
(* Requests that reach no handler.                                         *)
(***************************************************************************)
\* if (request.method === 'OPTIONS'): new Response(null, {status: 204})
preflight(r, req) ==
  /\ Route(req) = "preflight"
  /\ Receive(r, req)
  /\ Respond(r, [status |-> 204, body |-> [null |-> TRUE]], <<>>)
  /\ NoLoop(r)
  /\ UNCHANGED index

\* if (path === '/' || path === '/health')
health(r, req) ==
  /\ Route(req) = "health"
  /\ Receive(r, req)
  /\ Respond(r, jsonResponse([status |-> "ok", service |-> "gallery-search"], 200), <<>>)
  /\ NoLoop(r)
  /\ UNCHANGED index

\* new Response('Not Found', {status: 404})
notFound(r, req) ==
  /\ Route(req) = "notFound"
  /\ Receive(r, req)
  /\ Respond(r, [status |-> 404, body |-> [text |-> "Not Found"]], <<>>)
  /\ NoLoop(r)
  /\ UNCHANGED index

(***************************************************************************)
(* Backend failures and the catch of fetch().                              *)
(***************************************************************************)
\* err.message of a rejected backend call
ErrorMessage(svc) == IF svc = "AI.run" THEN "EmbeddingUnavailable" ELSE "IndexUnavailable"

\* a catch that issues the rejected call once more before it gives up
catchRetry(r) ==
  /\ InFlight(r)
  /\ IF \E c \in 1..Len(calls[r]) : calls[r][c].st = "failed"
     THEN Respond(r, jsonResponse([error |-> ErrorMessage(calls[r][Len(calls[r])].svc)], 500),
                  Settled(calls[r], "failed"))
     ELSE Await(r, pc[r],
                Append(Settled(calls[r], "failed"),
                       Call(calls[r][Len(calls[r])].svc, calls[r][Len(calls[r])].arg)))
  /\ UNCHANGED <<index, request, i, results, received, nreq>>

\* the awaited call rejects; the handler throws; fetch() answers 500
catch(r) ==
  /\ InFlight(r)
  /\ Respond(r, jsonResponse([error |-> ErrorMessage(calls[r][Len(calls[r])].svc)], 500),
             Settled(calls[r], "failed"))
  /\ UNCHANGED <<index, request, i, results, received, nreq>>

(***************************************************************************)
(* Specification: the worker serves its requests one after the other.      *)
(***************************************************************************)
\* the requests of each route of fetch()
IndexRequests == {req \in Requests : Route(req) = "handleIndex"}
IndexBatchRequests == {req \in Requests : Route(req) = "handleIndexBatch"}
SearchRequests == {req \in Requests : Route(req) = "handleSearch"}
GetTagsRequests == {req \in Requests : Route(req) = "handleGetTags"}
GetImagesRequests == {req \in Requests : Route(req) = "handleGetImages"}
PreflightRequests == {req \in Requests : Route(req) = "preflight"}
HealthRequests == {req \in Requests : Route(req) = "health"}
NotFoundRequests == {req \in Requests : Route(req) = "notFound"}

Serial == {1}

Next ==
  \E r \in Serial :
    \/ \E req \in IndexRequests : handleIndex(r, req)
    \/ handleIndexEmbedded(r)
    \/ handleIndexUpserted(r)
    \/ \E req \in IndexBatchRequests : handleIndexBatch(r, req)
    \/ handleIndexBatchEmbedded(r)
    \/ handleIndexBatchUpserted(r)
    \/ \E req \in SearchRequests : handleSearch(r, req)
    \/ handleSearchEmbedded(r)
    \/ handleSearchQueried(r)
    \/ \E req \in GetTagsRequests : handleGetTags(r, req)
    \/ handleGetTagsQueried(r)
    \/ \E req \in GetImagesRequests : handleGetImages(r, req)
    \/ handleGetImagesQueried(r)
    \/ \E req \in PreflightRequests : preflight(r, req)
    \/ \E req \in HealthRequests : health(r, req)
    \/ \E req \in NotFoundRequests : notFound(r, req)
    \/ catch(r)

Spec == Init /\ [][Next]_vars

(***************************************************************************)
(* Specification: the worker serves requests concurrently.  Each request   *)
(* runs from one await to the next; between two awaits of one request any  *)
(* other request may run.                                                  *)
(***************************************************************************)
\* two writers of one id with different fields, a batch of two chunks whose ids
\* repeat, a batch of one chunk, and a search
ConcRequests ==
  {Request("POST", "/index", WithId(ItemShapes[2], IdOf(1)), Str(<<"k">>)),
   Request("POST", "/index", WithId(ItemShapes[3], IdOf(1)), Str(<<"k">>)),
   Request("POST", "/index-batch", [images |-> Arr(Images(batchSize + 1, "cyclic"))], Undef),
   Request("POST", "/index-batch", [images |-> Arr(Images(2, "distinct"))], Undef),
   Request("POST", "/search", [query |-> Str(<<"a">>), limit |-> Num(2)], Undef)}

\* the request slots that serve concurrently
Concurrent == {1, 2}

ConcNext ==
  \E r \in Concurrent :
    \/ \E req \in ConcRequests : handleIndex(r, req)
    \/ handleIndexEmbedded(r)
    \/ handleIndexUpserted(r)
    \/ \E req \in ConcRequests : handleIndexBatch(r, req)
    \/ handleIndexBatchEmbedded(r)
    \/ handleIndexBatchUpserted(r)
    \/ \E req \in ConcRequests : handleSearch(r, req)
    \/ handleSearchEmbedded(r)
    \/ handleSearchQueried(r)
    \/ catch(r)

ConcSpec == Init /\ [][ConcNext]_vars


(***************************************************************************)
(* scripts/sync-gallery-tags.js: one run of the script.  The endpoint is   *)
(* outside the script: a fetch rejects, or answers with a status that is   *)
(* not ok, or answers 200 with a JSON list.  sync.pc is the await the      *)
(* script stands at; sync.fetched lists the fetches it has issued,         *)
(* sync.got is the tag list as the endpoint delivered it, sync.before the  *)
(* file as the run found it.                                               *)
(***************************************************************************)
\* a < b or a = b in the order of Array.prototype.sort() on strings
NotAfter(a, b) == a = b \/ Before(a, b)

\* the array with one element inserted at its place
RECURSIVE Insert(_, _)
Insert(sorted, t) ==
  IF Len(sorted) = 0 THEN <<t>>
  ELSE IF NotAfter(Head(sorted), t) THEN <<Head(sorted)>> \o Insert(Tail(sorted), t)
  ELSE <<t>> \o sorted

\* tags.sort()
RECURSIVE ArraySort(_)
ArraySort(arr) ==
  IF Len(arr) = 0 THEN <<>> ELSE Insert(ArraySort(Tail(arr)), Head(arr))

\* the tags the endpoint may hold
TagNames == {<<"a">>, <<"b">>, <<"c">>}

\* bodies of a 200 from /tags: lists in any order, with or without repeats
TagLists == UNION {[1..n -> TagNames] : n \in 0..MaxTags}

\* bodies of a 200 from /images: what handleGetImages answers on the initial indexes
ImageLists == {ImageEntries(Matches(idx, ListAll.arg)) : idx \in InitialIndexes}

\* what a fetch that does not deliver can be: rejected, or answered with !response.ok
FetchFailures == {[rejected |-> TRUE, status |-> 0],
                  [rejected |-> FALSE, status |-> 500],
                  [rejected |-> FALSE, status |-> 404]}

\* err.message of a failed fetchTags() / fetchImages()
FetchMessage(what, failure) ==
  IF failure.rejected THEN [text |-> "fetch failed", status |-> 0]
  ELSE [text |-> "Failed to fetch " \o what, status |-> failure.status]

\* data/gallery-tags.json before the run: absent, or left by an earlier run
NoFile == [absent |-> TRUE]
OldFile == [tags |-> << <<"x">> >>, images |-> <<>>, lastSynced |-> "earlier"]

\* a fetch issued and awaited
Fetch(url) == [url |-> url, st |-> "pending"]

\* main() is entered: the header is logged and fetchTags() is awaited
SyncStarts ==
  {[pc |-> "fetchTags", tags |-> <<>>, got |-> <<>>, images |-> <<>>, file |-> f, before |-> f,
    fetched |-> <<Fetch("/tags")>>, log |-> <<[out |-> "log", line |-> "Fetching tags..."]>>,
    exit |-> -1] : f \in {NoFile, OldFile}}

SyncInit ==
  /\ index = <<>>
  /\ NoRequests
  /\ sync \in SyncStarts
  /\ gallery = NotLoaded

\* the worker takes no step while the script is looked at
WorkerIdle == UNCHANGED <<index, pc, request, i, results, calls, resp, received, nreq, gallery>>

\* the outer catch: console.error, process.exit(1)
SyncFailed(message) ==
  [sync EXCEPT !.pc = "exit",
               !.log = Append(sync.log, [out |-> "error", line |-> "Error", message |-> message]),
               !.exit = 1]

\* const tags = await fetchTags() resolved; fetchImages() is awaited inside the inner try
fetchTagsResolved ==
  /\ sync.pc = "fetchTags"
  /\ \E list \in TagLists :
       sync' = [sync EXCEPT !.pc = "fetchImages",
                            !.tags = list,
                            !.got = list,
                            !.fetched = Append(Settled(sync.fetched, "ok"), Fetch("/images")),
                            !.log = sync.log \o <<[out |-> "log", line |-> "Found tags", n |-> Len(list)],
                                                  [out |-> "log", line |-> "Fetching image metadata..."]>>]
  /\ WorkerIdle

\* fetchTags() threw: the outer catch
fetchTagsRejected ==
  /\ sync.pc = "fetchTags"
  /\ \E failure \in FetchFailures :
       sync' = [SyncFailed(FetchMessage("tags", failure))
                  EXCEPT !.fetched = Settled(sync.fetched, "failed")]
  /\ WorkerIdle

\* the data object, and writeFile awaited
WriteData(s, list) ==
  [s EXCEPT !.pc = "writeFile",
            !.tags = ArraySort(s.tags),
            !.images = list]

\* images = await fetchImages() resolved
fetchImagesResolved ==
  /\ sync.pc = "fetchImages"
  /\ \E list \in ImageLists :
       sync' = WriteData([sync EXCEPT !.fetched = Settled(sync.fetched, "ok"),
                                     !.log = Append(sync.log,
                            [out |-> "log", line |-> "Found images", n |-> Len(list)])], list)
  /\ WorkerIdle

\* an inner catch that gives up
fetchImagesRejectedAbort ==
  /\ sync.pc = "fetchImages"
  /\ \E failure \in FetchFailures :
       sync' = [SyncFailed(FetchMessage("images", failure))
                  EXCEPT !.fetched = Settled(sync.fetched, "failed")]
  /\ WorkerIdle

\* fetchImages() threw: the inner catch logs it and images stays []
fetchImagesRejected ==
  /\ sync.pc = "fetchImages"
  /\ \E failure \in FetchFailures :
       sync' = WriteData([sync EXCEPT !.fetched = Settled(sync.fetched, "failed"),
                                     !.log = sync.log \o
                            <<[out |-> "log", line |-> "Image metadata endpoint not available",
                               message |-> FetchMessage("images", failure)],
                              [out |-> "log", line |-> "Proceeding with tags only."]>>], <<>>)
  /\ WorkerIdle

\* await writeFile('data/gallery-tags.json', JSON.stringify(data)) resolved; main returns
writeFileResolved ==
  /\ sync.pc = "writeFile"
  /\ sync' = [sync EXCEPT !.pc = "exit",
                          !.file = [tags |-> sync.tags, images |-> sync.images,
                                    lastSynced |-> "now"],
                          !.log = Append(sync.log, [out |-> "log", line |-> "Written to"]),
                          !.exit = 0]
  /\ WorkerIdle

\* writeFile rejected: the outer catch
writeFileRejected ==
  /\ sync.pc = "writeFile"
  /\ sync' = SyncFailed([text |-> "write failed", status |-> 0])
  /\ WorkerIdle

SyncNext ==
  \/ fetchTagsResolved
  \/ fetchTagsRejected
  \/ fetchImagesResolved
  \/ fetchImagesRejected
  \/ writeFileResolved
  \/ writeFileRejected

SyncSpec == SyncInit /\ [][SyncNext]_vars

(***************************************************************************)
(* js/gallery.js: the Gallery object of one page.  The visitor types into  *)
(* the search input, presses Enter and clicks tag filters; the debounce    *)
(* timer fires; the fetch of a search resolves or fails, in any order.     *)
(* gallery.searches lists the invocations of handleSearch that reached     *)
(* their fetch, gallery.last is the visitor's most recent action.          *)
(***************************************************************************)
\* the .gallery-item elements of the page: data-image-id, data-tags, alt of the img
GalleryItems ==
  << [imageId |-> "1", tags |-> <<"a", "b">>, alt |-> <<"x">>],
     [imageId |-> "2", tags |-> <<"a", "b", ",", " ", "b", "a">>, alt |-> <<>>],
     [imageId |-> "3", tags |-> <<"b", "a">>, alt |-> <<"A", "b">>] >>

\* the data-tag values of the filter buttons
FilterTags == {<<"a", "l", "l">>, <<"a", "b">>, <<"b", "a">>}

\* what the visitor types: two queries, one with blanks around it, one too short
InputTexts == {<<"a", "b">>, <<" ", "b", "a", " ">>, <<"a">>}

\* the ids of the results a 200 of /search carries
ResultLists == {<<>>, <<"2", "1">>, <<"3">>}

\* String.prototype.toLowerCase on the characters in use
ToLowerCase(str) ==
  [k \in 1..Len(str) |->
     IF str[k] = "A" THEN "a" ELSE IF str[k] = "B" THEN "b" ELSE IF str[k] = "X" THEN "x"
     ELSE str[k]]

\* query.split(/\s+/)
RECURSIVE Terms(_, _)
Terms(str, cur) ==
  IF Len(str) = 0 THEN <<cur>>
  ELSE IF Head(str) = " "
  THEN IF Len(str) > 1 /\ str[2] = " " THEN Terms(Tail(str), cur)
       ELSE <<cur>> \o Terms(Tail(str), <<>>)
  ELSE Terms(Tail(str), Append(cur, Head(str)))

\* searchText.includes(term)
StringIncludes(text, term) ==
  \E from \in 0..(Len(text) - Len(term)) : SubSeq(text, from + 1, from + Len(term)) = term

\* tags.includes(tag)
ArrayIncludes(arr, x) == \E k \in 1..Len(arr) : arr[k] = x

\* style.display and style.order of an item
Style(visible, order) == [display |-> IF visible THEN "" ELSE "none", order |-> order]

\* this.updateEmptyState(visibleCount === 0) after the items were restyled
Restyled(g, style) ==
  [g EXCEPT !.style = style,
            !.empty = \A k \in 1..Len(style) : style[k].display = "none"]

\* filterByTag(tag)
filterByTag(g, tag) ==
  Restyled([g EXCEPT !.activeTag = tag, !.isSearching = FALSE],
           [k \in 1..Len(GalleryItems) |->
              Style(tag = <<"a", "l", "l">> \/ ArrayIncludes(SplitTags(Str(GalleryItems[k].tags)), tag),
                    <<>>)])

\* localSearch(query)
localSearch(g, query) ==
  LET terms == Terms(ToLowerCase(query), <<>>)
      searchText(item) == ToLowerCase(item.tags \o <<" ">> \o item.alt)
  IN Restyled(g,
       [k \in 1..Len(GalleryItems) |->
          Style(\A q \in 1..Len(terms) : StringIncludes(searchText(GalleryItems[k]), terms[q]),
                <<>>)])

\* resultMap.get(imageId): new Map(results.map((r, i) => [r.id, i]))
ResultIndex(list, imageId) ==
  (CHOOSE q \in 1..Len(list) :
     list[q] = imageId /\ \A q2 \in (q + 1)..Len(list) : list[q2] # imageId) - 1

\* the items reordered and filtered by the results of a search
Reordered(g, list) ==
  Restyled(g,
    [k \in 1..Len(GalleryItems) |->
       IF \E q \in 1..Len(list) : list[q] = GalleryItems[k].imageId
       THEN Style(TRUE, <<ResultIndex(list, GalleryItems[k].imageId)>>)
       ELSE [display |-> "none", order |-> g.style[k].order]])

NoTimer == [set |-> FALSE, query |-> <<>>]

\* handleSearch(query) of the Gallery, up to its fetch
GalleryHandleSearch(g, query) ==
  IF Len(query) < 2
  THEN filterByTag(g, g.activeTag)
  ELSE [g EXCEPT !.isSearching = TRUE,
                 !.busy = TRUE,
                 !.searches = Append(g.searches, [query |-> query, st |-> "pending", ret |-> <<>>])]

\* the page as new Gallery() leaves it: every item shown, no search issued
Loaded ==
  [pc |-> "on", activeTag |-> <<"a", "l", "l">>, isSearching |-> FALSE, timer |-> NoTimer,
   value |-> <<>>, busy |-> FALSE, empty |-> FALSE,
   style |-> [k \in 1..Len(GalleryItems) |-> Style(TRUE, <<>>)],
   searches |-> <<>>, last |-> [kind |-> "tag", tag |-> <<"a", "l", "l">>, query |-> <<>>],
   nact |-> 0]

GalleryInit ==
  /\ index = <<>>
  /\ NoRequests
  /\ sync = NotRun
  /\ gallery = Loaded

\* the worker and the script take no step while the page is looked at
PageOnly == UNCHANGED <<index, pc, request, i, results, calls, resp, received, nreq, sync>>

\* the visitor does one more thing
Acts(g, last) == [g EXCEPT !.last = last, !.nact = g.nact + 1]

\* click on a filter button: filterByTag(btn.dataset.tag); searchInput.value = ''
click(tag) ==
  /\ gallery.nact < MaxActions
  /\ gallery' = Acts([filterByTag(gallery, tag) EXCEPT !.value = <<>>],
                     [kind |-> "tag", tag |-> tag, query |-> <<>>])
  /\ PageOnly

\* input event: clearTimeout, setTimeout(() => this.handleSearch(query), 300)
input(text) ==
  /\ gallery.nact < MaxActions
  /\ gallery' = Acts([gallery EXCEPT !.value = text,
                                     !.timer = [set |-> TRUE, query |-> Trim(text)]],
                     [kind |-> "query", tag |-> <<>>, query |-> Trim(text)])
  /\ PageOnly

\* keydown Enter: clearTimeout, handleSearch(this.searchInput.value.trim())
keydownEnter ==
  /\ gallery.nact < MaxActions
  /\ gallery' = Acts(GalleryHandleSearch([gallery EXCEPT !.timer = NoTimer], Trim(gallery.value)),
                     [kind |-> "query", tag |-> <<>>, query |-> Trim(gallery.value)])
  /\ PageOnly

\* the debounce timer fires
timeout ==
  /\ gallery.timer.set
  /\ gallery' = GalleryHandleSearch([gallery EXCEPT !.timer = NoTimer], gallery.timer.query)
  /\ PageOnly

\* finally: this.grid.removeAttribute('aria-busy')
Finally(g) == [g EXCEPT !.busy = FALSE]

\* the fetch of search k resolved with a 200: the items are reordered
fetchResolved(k) ==
  /\ k \in 1..Len(gallery.searches)
  /\ gallery.searches[k].st = "pending"
  /\ \E list \in ResultLists :
       gallery' = Finally(Reordered([gallery EXCEPT !.searches[k].st = "ok",
                                                   !.searches[k].ret = list], list))
  /\ PageOnly

\* the fetch of search k rejected or was not ok: localSearch(query)
fetchRejected(k) ==
  /\ k \in 1..Len(gallery.searches)
  /\ gallery.searches[k].st = "pending"
  /\ gallery' = Finally(localSearch([gallery EXCEPT !.searches[k].st = "failed"],
                                    gallery.searches[k].query))
  /\ PageOnly

GalleryNext ==
  \/ \E tag \in FilterTags : click(tag)
  \/ \E text \in InputTexts : input(text)
  \/ keydownEnter
  \/ timeout
  \/ \E k \in 1..MaxActions : fetchResolved(k)
  \/ \E k \in 1..MaxActions : fetchRejected(k)

GallerySpec == GalleryInit /\ [][GalleryNext]_vars

(***************************************************************************)
(* Vocabulary of the properties.                                           *)
(***************************************************************************)
Done(r) == pc[r] = "done"
IsIndex(r) == Route(request[r]) = "handleIndex"
IsIndexBatch(r) == Route(request[r]) = "handleIndexBatch"

\* the images of an /index-batch request that passed validation
ImagesOf(r) == request[r].body.images.a

\* the request ended because its last backend call failed
LastFailed(r) == Len(calls[r]) > 0 /\ calls[r][Len(calls[r])].st = "failed"

\* the calls of the request that are still outstanding
Pending(r) == {c \in 1..Len(calls[r]) : calls[r][c].st = "pending"}

\* number of embedding calls the request has issued: the chunk it has reached
ChunkReached(r) == Cardinality({c \in 1..Len(calls[r]) : calls[r][c].svc = "AI.run"})

\* number of chunks of n images
Chunks(n) == (n + batchSize - 1) \div batchSize

\* size of chunk k of n images
ChunkSize(n, k) == IF k < Chunks(n) THEN batchSize ELSE n - batchSize * (Chunks(n) - 1)

\* the last of the first m images that carries this id
LastWith(imgs, m, id) ==
  CHOOSE j \in 1..m : imgs[j].id = id /\ \A j2 \in (j + 1)..m : imgs[j2].id # id

\* the record the index holds after indexing img
RecordOf(img) ==
  [id |-> img.id, values |-> [of |-> TextForEmbedding(img)], metadata |-> Metadata(img)]

InIndex(idx, rec) == \E p \in 1..Len(idx) : idx[p] = rec

HasId(idx, id) == \E p \in 1..Len(idx) : idx[p].id = id

\* C1: when the embedding or the upsert of chunk k of a batch fails, at the end of
\* the request every image of chunks 1..k-1 is in the index with the record this
\* batch gave it, and nothing of chunks k..n was written: every other record of
\* the index is as it was when the request was received.
C1_PartialSuccess ==
  \A r \in Reqs :
    (Done(r) /\ IsIndexBatch(r) /\ LastFailed(r)) =>
      LET imgs == ImagesOf(r)
          m == (ChunkReached(r) - 1) * batchSize
      IN /\ m < Len(imgs)
         /\ \A j \in 1..m : InIndex(index, RecordOf(imgs[LastWith(imgs, m, imgs[j].id)]))
         /\ \A p \in 1..Len(index) :
              (\A j \in 1..m : imgs[j].id # index[p].id) => InIndex(received[r], index[p])
         /\ \A p \in 1..Len(received[r]) : HasId(index, received[r][p].id)

\* a batch failed in the upsert of its third chunk
C1_Witness ==
  \E r \in Reqs :
    /\ Done(r) /\ IsIndexBatch(r) /\ LastFailed(r)
    /\ ChunkReached(r) = 3
    /\ calls[r][Len(calls[r])].svc = "upsert"


\* C2: when a chunk of a batch fails, the response carries the number of images
\* indexed before the failure.
C2_FailureReportsCount ==
  \A r \in Reqs :
    (Done(r) /\ IsIndexBatch(r) /\ LastFailed(r)) =>
      /\ "indexed" \in DOMAIN resp[r].body
      /\ resp[r].body.indexed = Len(results[r])

\* no two records of the index have the same id
UniqueIds(idx) == \A p, q \in 1..Len(idx) : idx[p].id = idx[q].id => p = q

\* the images a finished index request wrote, in the order it wrote them
Written(r) ==
  IF IsIndex(r)
  THEN IF resp[r].status = 200 THEN <<request[r].body>> ELSE <<>>
  ELSE IF IsIndexBatch(r) /\ IsArray(request[r].body.images)
  THEN SubSeq(ImagesOf(r), 1, Len(results[r]))
  ELSE <<>>

\* last write wins, without merge: one record per id; the record of an id the
\* request wrote is the record of the last image written with that id, whatever
\* the index held before; every other record is as it was
NoMerge ==
  /\ UniqueIds(index)
  /\ \A r \in Reqs :
       Done(r) =>
         LET w == Written(r)
         IN /\ \A j \in 1..Len(w) : InIndex(index, RecordOf(w[LastWith(w, Len(w), w[j].id)]))
            /\ \A p \in 1..Len(index) :
                 (\A j \in 1..Len(w) : w[j].id # index[p].id) => InIndex(received[r], index[p])

\* a field the image omits is empty in the record
OmittedIsEmpty(img, md) ==
  /\ img.tags.t = "undefined" => md.tags = <<>>
  /\ img.alt.t = "undefined" => md.alt = <<>>
  /\ img.caption.t = "undefined" => md.caption = <<>>
  /\ img.project.t = "undefined" => md.project = <<>>
  /\ img.src.t = "undefined" => md.src = <<>>
  /\ img.thumb.t = "undefined" => md.thumb = <<>>

\* C3: upsert is last-write-wins with no merge: one record per id, every field
\* determined by the most recent indexing input of that id alone, and a field
\* that input omits is empty.
C3_LastWriteWins ==
  /\ NoMerge
  /\ \A r \in Reqs :
       Done(r) =>
         LET w == Written(r)
         IN \A j \in 1..Len(w) : \A p \in 1..Len(index) :
              (index[p].id = w[j].id /\ j = LastWith(w, Len(w), w[j].id))
                => OmittedIsEmpty(w[j], index[p].metadata)

\* a stored tag is non-empty and carries no surrounding whitespace
TrimmedNonEmpty(t) == Len(t) > 0 /\ t[1] # " " /\ t[Len(t)] # " "

\* C4: every record of the index has tags that are all non-empty, trimmed strings.
C4_StoredTags ==
  \A p \in 1..Len(index) :
    \A k \in 1..Len(index[p].metadata.tags) : TrimmedNonEmpty(index[p].metadata.tags[k])

\* C5: every record of the index was written from an image with embeddable text:
\* the text made of its caption, alt, tags and project, which is the text the
\* record's vector was computed from, is not empty.
C5_EmbeddableText ==
  \A p \in 1..Len(index) : Len(index[p].values.of) > 0

\* the image gives no caption, no alt, no tags and no project
NoTextFields(img) ==
  /\ img.caption.t = "undefined" \/ img.caption = Str(<<>>)
  /\ img.alt.t = "undefined" \/ img.alt = Str(<<>>)
  /\ img.project.t = "undefined" \/ img.project = Str(<<>>)
  /\ \/ img.tags.t = "undefined"
     \/ img.tags = Str(<<>>)
     \/ img.tags = Arr(<<>>)
     \/ img.tags = Arr(<< <<>> >>)

IdPresent(img) == img.id.t = "string" /\ Len(img.id.s) > 0

\* C6: an /index request with an id and no caption, alt, tags or project is
\* answered 400 without a backend call and leaves the index as it was; with an
\* id and at least one of them it is answered {success: true, id} and the record
\* is in the index (when no backend call fails).
C6_NoEmbeddableText ==
  \A r \in Reqs :
    (Done(r) /\ IsIndex(r) /\ IdPresent(request[r].body)) =>
      LET body == request[r].body
      IN IF NoTextFields(body)
         THEN /\ resp[r].status = 400
              /\ calls[r] = <<>>
              /\ index = received[r]
         ELSE \/ LastFailed(r) /\ resp[r].status = 500
              \/ /\ resp[r] = [status |-> 200, body |-> [success |-> TRUE, id |-> body.id]]
                 /\ HasId(index, body.id)

\* an /index request with an id and without text was refused while the index
\* held records
C6_Witness ==
  \E r \in Reqs :
    /\ Done(r) /\ IsIndex(r) /\ IdPresent(request[r].body)
    /\ NoTextFields(request[r].body)
    /\ resp[r].status = 400
    /\ Len(index) > 0

\* C7: an /index request without an id is answered 400 before any backend call,
\* and the index is as it was.
C7_MissingId ==
  \A r \in Reqs :
    (Done(r) /\ IsIndex(r) /\ ~IdPresent(request[r].body)) =>
      /\ resp[r] = [status |-> 400, body |-> [error |-> "Missing \"id\" field"]]
      /\ calls[r] = <<>>
      /\ index = received[r]

\* an /index request that has text and no id was refused while the index held records
C7_Witness ==
  \E r \in Reqs :
    /\ Done(r) /\ IsIndex(r)
    /\ request[r].body.id.t = "undefined"
    /\ ~NoTextFields(request[r].body)
    /\ resp[r].status = 400
    /\ Len(index) > 0

\* C8: an /index-batch request whose images are missing, not an array or empty is
\* answered 400 with no embedding call and no upsert.
C8_EmptyBatch ==
  \A r \in Reqs :
    (Done(r) /\ IsIndexBatch(r)
       /\ (request[r].body.images.t # "array" \/ Len(request[r].body.images.a) = 0)) =>
      /\ resp[r] = [status |-> 400, body |-> [error |-> "Missing or empty \"images\" array"]]
      /\ calls[r] = <<>>
      /\ index = received[r]

\* an /index-batch request with an empty array was refused while the index held records
C8_Witness ==
  \E r \in Reqs :
    /\ Done(r) /\ IsIndexBatch(r)
    /\ request[r].body.images = Arr(<<>>)
    /\ resp[r].status = 400
    /\ Len(index) > 0

\* C9: a batch of n images that meets no failure issues ceil(n / batchSize)
\* embedding calls and as many upserts, alternating; chunk k has batchSize images
\* but for the last, and the chunks in call order are the input in order.
C9_Chunking ==
  \A r \in Reqs :
    (Done(r) /\ IsIndexBatch(r) /\ resp[r].status = 200) =>
      LET imgs == ImagesOf(r)
          n == Len(imgs)
      IN /\ n >= 1
         /\ Len(calls[r]) = 2 * Chunks(n)
         /\ \A k \in 1..Chunks(n) :
              LET embed == calls[r][2 * k - 1]
                  upsert == calls[r][2 * k]
                  off == batchSize * (k - 1)
              IN /\ embed.svc = "AI.run" /\ upsert.svc = "upsert"
                 /\ Len(embed.arg) = ChunkSize(n, k)
                 /\ Len(upsert.arg) = ChunkSize(n, k)
                 /\ 1 <= ChunkSize(n, k) /\ ChunkSize(n, k) <= batchSize
                 /\ \A q \in 1..ChunkSize(n, k) :
                      /\ embed.arg[q] = TextForEmbedding(imgs[off + q])
                      /\ upsert.arg[q].id = imgs[off + q].id

\* a batch of 25 images succeeded with chunks of 10, 10 and 5
C9_Witness ==
  \E r \in Reqs :
    /\ Done(r) /\ IsIndexBatch(r) /\ resp[r].status = 200
    /\ Len(ImagesOf(r)) = 25
    /\ Len(calls[r]) = 6
    /\ Len(calls[r][1].arg) = 10 /\ Len(calls[r][3].arg) = 10 /\ Len(calls[r][5].arg) = 5

\* C10: inside one batch request the calls are strictly sequential: a call is
\* issued only when every earlier call of the request has completed, the
\* embedding and the upsert of a chunk alternate, and at most one call is pending.
C10_Sequential ==
  \A r \in Reqs :
    IsIndexBatch(r) =>
      /\ Cardinality(Pending(r)) <= 1
      /\ \A c \in 1..Len(calls[r]) :
           /\ c < Len(calls[r]) => calls[r][c].st = "ok"
           /\ calls[r][c].svc = (IF c % 2 = 1 THEN "AI.run" ELSE "upsert")
           /\ c % 2 = 0 => Len(calls[r][c].arg) = Len(calls[r][c - 1].arg)
      /\ InFlight(r) => Pending(r) = {Len(calls[r])}

\* a batch awaits the embedding of its second chunk, the first chunk's calls done
C10_Witness ==
  \E r \in Reqs :
    /\ IsIndexBatch(r) /\ pc[r] = "embed"
    /\ Len(calls[r]) = 3
    /\ calls[r][2].st = "ok"


IsSearch(r) == Route(request[r]) = "handleSearch"
IsGetTags(r) == Route(request[r]) = "handleGetTags"
IsGetImages(r) == Route(request[r]) = "handleGetImages"

\* the query of a /search body is a non-empty string
ValidQuery(body) == body.query.t = "string" /\ Len(body.query.s) > 0

\* C11: a search whose query is empty or not a string is answered 400 and issues
\* neither an embedding call nor an index query.
C11_InvalidQuery ==
  \A r \in Reqs :
    (Done(r) /\ IsSearch(r) /\ ~ValidQuery(request[r].body)) =>
      /\ resp[r] = [status |-> 400, body |-> [error |-> "Missing or invalid \"query\" field"]]
      /\ calls[r] = <<>>
      /\ index = received[r]

\* a search whose query is an array was refused
C11_Witness ==
  \E r \in Reqs :
    /\ Done(r) /\ IsSearch(r)
    /\ request[r].body.query = Arr(<<>>)
    /\ resp[r].status = 400

Clamp(n, lo, hi) == IF n < lo THEN lo ELSE IF n > hi THEN hi ELSE n

\* C12: the topK of the index query of a search is clamp(limit, 1, 100) for every
\* integer limit, and 20 when the limit is omitted.
C12_TopKClamped ==
  \A r \in Reqs :
    IsSearch(r) =>
      \A c \in 1..Len(calls[r]) :
        calls[r][c].svc = "query" =>
          calls[r][c].arg.topK =
            (IF request[r].body.limit.t = "undefined" THEN 20
             ELSE Clamp(request[r].body.limit.n, 1, 100))

\* C13: a search with a valid query that meets no backend failure is answered 200
\* with one {id, score, metadata} entry per match the index returned, in the
\* index's order, at most topK of them; no match gives 200 with the empty list.
C13_SearchResults ==
  \A r \in Reqs :
    (Done(r) /\ IsSearch(r) /\ ValidQuery(request[r].body)) =>
      \/ LastFailed(r) /\ resp[r].status = 500
      \/ /\ resp[r].status = 200
         /\ Len(calls[r]) = 2
         /\ calls[r][2].svc = "query" /\ calls[r][2].st = "ok"
         /\ LET matches == calls[r][2].ret
                list == resp[r].body
            IN /\ Len(list) = Len(matches)
               /\ Len(list) <= calls[r][2].arg.topK
               /\ \A k \in 1..Len(matches) :
                    list[k] = [id |-> matches[k].id, score |-> matches[k].score,
                               metadata |-> matches[k].metadata]

\* a search with limit 2 on an index of three records returned the first two matches
C13_Witness ==
  \E r \in Reqs :
    /\ Done(r) /\ IsSearch(r) /\ resp[r].status = 200
    /\ Len(index) = 3
    /\ Len(resp[r].body) = 2
    /\ resp[r].body[1].id # resp[r].body[2].id

\* the tags of the records of the index
IndexedTags ==
  UNION {{index[p].metadata.tags[q] : q \in 1..Len(index[p].metadata.tags)} :
           p \in 1..Len(index)}

NormalizedTags(tags) == IF IsArray(tags) THEN tags.a ELSE FilterBoolean(SplitTags(tags))

\* the text of an image as specified: caption, alt, the normalized tags joined
\* with single spaces, project; the non-empty ones joined with ". "
SpecifiedText(img) ==
  Join(FilterBoolean(<< OrEmpty(img.caption), OrEmpty(img.alt),
                        Join(NormalizedTags(img.tags), <<" ">>), OrEmpty(img.project) >>),
       <<".", " ">>)

\* the images an index request has sent for embedding, in the order sent
Embedded(r) ==
  IF IsIndex(r) THEN (IF Len(calls[r]) >= 1 THEN <<request[r].body>> ELSE <<>>)
  ELSE IF Len(calls[r]) = 0 THEN <<>>
  ELSE SubSeq(ImagesOf(r), 1,
              IF ChunkReached(r) * batchSize < Len(ImagesOf(r))
              THEN ChunkReached(r) * batchSize ELSE Len(ImagesOf(r)))

\* the texts an index request has sent for embedding, in the order sent
RECURSIVE TextsSent(_)
TextsSent(log) ==
  IF Len(log) = 0 THEN <<>>
  ELSE IF Head(log).svc = "AI.run" THEN Head(log).arg \o TextsSent(Tail(log))
  ELSE TextsSent(Tail(log))

\* the records an index request has sent for upsert, in the order sent
RECURSIVE RecordsSent(_)
RecordsSent(log) ==
  IF Len(log) = 0 THEN <<>>
  ELSE IF Head(log).svc = "upsert" THEN Head(log).arg \o RecordsSent(Tail(log))
  ELSE RecordsSent(Tail(log))

\* C16: the text sent for embedding, by indexOne and by indexBatch, is made of
\* caption, alt, the normalized tags joined with single spaces, and project; the
\* tags "a, b" contribute "a b", as the array [a, b] does.
C16_EmbeddingText ==
  \A r \in Reqs :
    (IsIndex(r) \/ IsIndexBatch(r)) =>
      LET imgs == Embedded(r)
          sent == TextsSent(calls[r])
      IN /\ Len(sent) = Len(imgs)
         /\ \A j \in 1..Len(imgs) : sent[j] = SpecifiedText(imgs[j])

\* C17: tags supplied as one string are stored split on commas, trimmed, without
\* the empty segments, in their order.
C17_StringTags ==
  \A r \in Reqs :
    (IsIndex(r) \/ IsIndexBatch(r)) =>
      LET imgs == Embedded(r)
          recs == RecordsSent(calls[r])
      IN \A j \in 1..Len(recs) :
           imgs[j].tags.t = "string" =>
             recs[j].metadata.tags = FilterBoolean(SplitTags(imgs[j].tags))

\* C18: tags supplied as an array are stored as they are: the same elements in
\* the same order, duplicates kept, nothing trimmed.
C18_ArrayTags ==
  \A r \in Reqs :
    (IsIndex(r) \/ IsIndexBatch(r)) =>
      LET imgs == Embedded(r)
          recs == RecordsSent(calls[r])
      IN /\ Len(recs) <= Len(imgs)
         /\ \A j \in 1..Len(recs) :
              imgs[j].tags.t = "array" =>
                /\ recs[j].metadata.tags = imgs[j].tags.a
                /\ (Done(r) /\ ~LastFailed(r) /\ j = LastWith(imgs, Len(imgs), imgs[j].id)) =>
                     \E p \in 1..Len(index) :
                       index[p].id = imgs[j].id /\ index[p].metadata.tags = imgs[j].tags.a

\* an /index request stored the tags [" a", "a", "a"]
C18_Witness ==
  \E r \in Reqs :
    /\ Done(r) /\ IsIndex(r) /\ resp[r].status = 200
    /\ request[r].body.tags = Arr(<< <<" ", "a">>, <<"a">>, <<"a">> >>)
    /\ \E p \in 1..Len(index) :
         /\ index[p].id = request[r].body.id
         /\ index[p].metadata.tags = << <<" ", "a">>, <<"a">>, <<"a">> >>

\* C19: a batch of n images that succeeds is answered {success: true, indexed: n,
\* results} with results[i] = {id: id of the i-th image, success: true}, and every
\* id reported is in the index when the response is made.
C19_BatchResponse ==
  \A r \in Reqs :
    (Done(r) /\ IsIndexBatch(r) /\ resp[r].status = 200) =>
      LET imgs == ImagesOf(r)
      IN /\ resp[r].body =
              [success |-> TRUE, indexed |-> Len(imgs),
               results |-> [k \in 1..Len(imgs) |-> [id |-> imgs[k].id, success |-> TRUE]]]
         /\ \A k \in 1..Len(imgs) : HasId(index, imgs[k].id)

\* a batch of 25 images with distinct ids succeeded
C19_Witness ==
  \E r \in Reqs :
    /\ Done(r) /\ IsIndexBatch(r) /\ resp[r].status = 200
    /\ resp[r].body.indexed = 25
    /\ Len(index) >= 25

\* C20: in a batch the texts go to the embedding call in input order and the
\* record upserted for an image carries the vector returned for that image's
\* text; so does every record the batch has put in the index.
C20_VectorAlignment ==
  \A r \in Reqs :
    (IsIndexBatch(r) /\ Len(calls[r]) > 0) =>
      LET imgs == Embedded(r)
          sent == TextsSent(calls[r])
          recs == RecordsSent(calls[r])
          w == Written(r)
      IN /\ Len(sent) = Len(imgs)
         /\ \A j \in 1..Len(imgs) : sent[j] = TextForEmbedding(imgs[j])
         /\ \A j \in 1..Len(recs) :
              /\ recs[j].id = imgs[j].id
              /\ recs[j].values = [of |-> sent[j]]
         /\ \A j \in 1..Len(w) :
              j = LastWith(w, Len(w), w[j].id) =>
                \E p \in 1..Len(index) :
                  index[p].id = w[j].id /\ index[p].values = [of |-> TextForEmbedding(w[j])]

\* a batch has upserted a chunk whose images have different texts
C20_Witness ==
  \E r \in Reqs :
    /\ Done(r) /\ IsIndexBatch(r) /\ resp[r].status = 200
    /\ Len(ImagesOf(r)) >= 2
    /\ calls[r][2].arg[1].values # calls[r][2].arg[2].values
    /\ InIndex(index, calls[r][2].arg[2])


\* the request in slot r was routed to a handler that calls a backend on failure-prone paths
CallsBackends(r) == IsSearch(r) \/ IsIndex(r) \/ IsIndexBatch(r)

\* the calls a request may issue when none is repeated
CallBudget(r) ==
  IF IsIndexBatch(r) /\ IsArray(request[r].body.images)
  THEN 2 * Chunks(Len(ImagesOf(r))) ELSE 2

\* C21: no internal retry: in search, indexOne and indexBatch a rejected embedding
\* or index call is the last call of its request; no call is issued twice (the
\* calls alternate between the two services and stay within one per step), and
\* the request has ended with status 500 and the error's message.
C21_NoRetry ==
  \A r \in Reqs :
    CallsBackends(r) =>
      /\ Len(calls[r]) <= CallBudget(r)
      /\ \A c \in 1..(Len(calls[r]) - 1) : calls[r][c].svc # calls[r][c + 1].svc
      /\ \A c \in 1..Len(calls[r]) :
           calls[r][c].st = "failed" =>
             /\ c = Len(calls[r])
             /\ Done(r)
             /\ resp[r] = [status |-> 500,
                           body |-> [error |-> ErrorMessage(calls[r][c].svc)]]

\* a batch ended 500 on the rejected upsert of its second chunk, after three calls
C21_Witness ==
  \E r \in Reqs :
    /\ Done(r) /\ IsIndexBatch(r)
    /\ Len(calls[r]) = 4
    /\ calls[r][4].svc = "upsert" /\ calls[r][4].st = "failed"
    /\ resp[r] = [status |-> 500, body |-> [error |-> "IndexUnavailable"]]

\* the slot serves a request that is not an index request
ReadOnly(r) == nreq[r] > 0 /\ ~IsIndex(r) /\ ~IsIndexBatch(r)

\* the ids of the records of an index
Ids(idx) == {idx[p].id : p \in 1..Len(idx)}

\* no request other than an index request has issued an upsert
NoUpsertIssued ==
  \A r \in Reqs :
    ReadOnly(r) => \A c \in 1..Len(calls[r]) : calls[r][c].svc # "upsert"

\* a step of a request that is not an index request leaves the index as it is; a
\* step that changes the index is the resolution of an index request's upsert;
\* no step removes an id
IndexFrame ==
  /\ \A r \in Reqs :
       (ReadOnly(r)' /\ (pc'[r] # pc[r] \/ calls'[r] # calls[r])) => index' = index
  /\ index' # index =>
       \E r \in Reqs :
         /\ IsIndex(r) \/ IsIndexBatch(r)
         /\ pc[r] = "upsert"
         /\ calls'[r][Len(calls[r])].st = "ok"
  /\ Ids(index) \subseteq Ids(index')

\* C22: the index is mutated only by index requests and never shrinks: search,
\* listTags, listImages, health, OPTIONS and unrouted requests issue no upsert and
\* leave the index unchanged, and no step removes an id from the index.
C22_IndexFrame == []NoUpsertIssued /\ [][IndexFrame]_vars

\* a DELETE /index was answered 404 and the three records are still there
C22_Witness ==
  \E r \in Reqs :
    /\ Done(r) /\ request[r].method = "DELETE" /\ request[r].path = "/index"
    /\ resp[r].status = 404
    /\ calls[r] = <<>>
    /\ Len(index) = 3 /\ index = received[r]

\* C23: a POST /index request that carries no API key causes no embedding call
\* and no upsert, and leaves the index unchanged.
C23_ApiKeyRequired ==
  \A r \in Reqs :
    (IsIndex(r) /\ request[r].key = Undef) =>
      /\ calls[r] = <<>>
      /\ Done(r) => index = received[r]

\* C24: every record of the index, and every record a batch sends to the index,
\* has an id that is a non-empty string.
C24_IdsPresent ==
  /\ \A p \in 1..Len(index) : IdPresent(index[p])
  /\ \A r \in Reqs :
       IsIndexBatch(r) =>
         \A c \in 1..Len(calls[r]) :
           calls[r][c].svc = "upsert" =>
             \A q \in 1..Len(calls[r][c].arg) : IdPresent(calls[r][c].arg[q])

OwnOutcome(r) ==
  IF LastFailed(r)
  THEN resp[r] = [status |-> 500,
                  body |-> [error |-> ErrorMessage(calls[r][Len(calls[r])].svc)]]
  ELSE IF IsIndexBatch(r)
  THEN resp[r] = [status |-> 200,
                  body |-> [success |-> TRUE, indexed |-> Len(ImagesOf(r)),
                            results |-> [k \in 1..Len(ImagesOf(r)) |->
                                           [id |-> ImagesOf(r)[k].id, success |-> TRUE]]]]
  ELSE IF IsIndex(r)
  THEN resp[r] = [status |-> 200, body |-> [success |-> TRUE, id |-> request[r].body.id]]
  ELSE /\ resp[r].status = 200
       /\ Len(resp[r].body) = Len(calls[r][2].ret)
       /\ \A k \in 1..Len(resp[r].body) :
            /\ resp[r].body[k].id = calls[r][2].ret[k].id
            /\ resp[r].body[k].score = calls[r][2].ret[k].score
            /\ resp[r].body[k].metadata = calls[r][2].ret[k].metadata

\* C26: with requests interleaved, the response of a request is determined by its
\* own input and the outcomes of its own backend calls: two requests with the
\* same input and the same call outcomes have the same response; and the results
\* a batch has accumulated are the entries of its own images, in order.
C26_Isolation ==
  /\ \A r \in Reqs :
       (nreq[r] > 0 /\ IsIndexBatch(r)) =>
         /\ Len(results[r]) <= Len(ImagesOf(r))
         /\ \A k \in 1..Len(results[r]) :
              results[r][k] = [id |-> ImagesOf(r)[k].id, success |-> TRUE]
  /\ \A r \in Reqs : (Done(r) /\ CallsBackends(r)) => OwnOutcome(r)
  /\ \A r1, r2 \in Reqs :
       (Done(r1) /\ Done(r2) /\ request[r1] = request[r2] /\ calls[r1] = calls[r2])
         => (resp[r1] = resp[r2] /\ results[r1] = results[r2])

\* two batches ran interleaved on the same ids and both succeeded: the second
\* chunk of the long one was upserted after the short one had been received
C26_Witness ==
  \E r1, r2 \in Reqs :
    /\ Done(r1) /\ IsIndexBatch(r1) /\ resp[r1].status = 200 /\ Len(ImagesOf(r1)) > batchSize
    /\ Done(r2) /\ IsIndexBatch(r2) /\ resp[r2].status = 200 /\ Len(ImagesOf(r2)) = 2
    /\ Len(received[r1]) = 0
    /\ Len(received[r2]) = 3
    /\ ~InIndex(received[r2], RecordOf(ImagesOf(r1)[batchSize + 1]))
    /\ InIndex(index, RecordOf(ImagesOf(r2)[2]))

\* the images the concurrent requests and the initial index carry
InputImages ==
  {SeedImages[k] : k \in 1..Len(SeedImages)}
    \cup {req.body : req \in {q \in ConcRequests : Route(q) = "handleIndex"}}
    \cup UNION {{req.body.images.a[k] : k \in 1..Len(req.body.images.a)} :
                 req \in {q \in ConcRequests : Route(q) = "handleIndexBatch"}}

\* every record of the index is, vector and every metadata field, the record of
\* one input image: no record carries fields of two
NotMixed ==
  \A p \in 1..Len(index) :
    \E img \in InputImages : index[p] = RecordOf(img)

\* the step that applies an upsert leaves, for every id of the upsert, exactly the
\* record the upsert carries for it (the last one of that id), and touches no
\* other record
AppliedWhole ==
  \A r \in Reqs :
    (pc[r] = "upsert" /\ calls'[r][Len(calls[r])].st = "ok") =>
      LET arg == calls[r][Len(calls[r])].arg
      IN /\ \A q \in 1..Len(arg) : InIndex(index', arg[LastWith(arg, Len(arg), arg[q].id)])
         /\ \A p \in 1..Len(index') :
              InIndex(index, index'[p]) \/ \E q \in 1..Len(arg) : arg[q] = index'[p]
         /\ UniqueIds(index')

\* C27: two concurrent index requests for one id never leave a mixed record: the
\* record of the id is, vector and metadata, the record of one request, and after
\* every upsert it is the record that upsert carried (the last applied wins).
C27_NoMixedRecord == []NotMixed /\ [][AppliedWhole]_vars

\* two /index requests for id 1, one with a caption only and one with an alt only,
\* were received on the same empty index and both succeeded
C27_Witness ==
  \E r1, r2 \in Reqs :
    /\ r1 # r2
    /\ Done(r1) /\ IsIndex(r1) /\ resp[r1].status = 200
    /\ Done(r2) /\ IsIndex(r2) /\ resp[r2].status = 200
    /\ request[r1].body.id = request[r2].body.id
    /\ RecordOf(request[r1].body) # RecordOf(request[r2].body)
    /\ received[r1] = <<>> /\ received[r2] = <<>>
    /\ index = <<RecordOf(request[r2].body)>>

\* number of times t occurs in the list
Count(list, t) == Cardinality({k \in 1..Len(list) : list[k] = t})

\* sorted is the list in ascending order: the same tags as often, none before its
\* predecessor
SortedCopy(sorted, list) ==
  /\ Len(sorted) = Len(list)
  /\ \A t \in TagNames : Count(sorted, t) = Count(list, t)
  /\ \A k \in 1..(Len(sorted) - 1) : NotAfter(sorted[k], sorted[k + 1])

\* the log line of the failed images fetch
LoggedImagesFailure ==
  \E k \in 1..Len(sync.log) :
    /\ sync.log[k].line = "Image metadata endpoint not available"
    /\ sync.log[k].message.text \in {"fetch failed", "Failed to fetch images"}

\* the script ended in the outer catch on this failure
EndedOn(text) ==
  /\ sync.log[Len(sync.log)].out = "error"
  /\ sync.log[Len(sync.log)].message.text = text

\* the outcome of the script's fetches
TagsFailed == sync.fetched[1].st = "failed"
ImagesFailed == Len(sync.fetched) = 2 /\ sync.fetched[2].st = "failed"

\* C25: when the tags were fetched and the images fetch failed, the failure is
\* logged and the script goes on to write; if the write succeeds the file holds
\* the fetched tags sorted and an empty images list and the script ends normally.
\* When the tags fetch failed the file is as it was, the exit status is 1 and
\* /images was never fetched.
C25_SyncFallback ==
  /\ ImagesFailed =>
       /\ sync.fetched[1] = [url |-> "/tags", st |-> "ok"]
       /\ LoggedImagesFailure
       /\ sync.pc \in {"writeFile", "exit"}
       /\ sync.images = <<>>
       /\ sync.pc = "exit" =>
            \/ EndedOn("write failed") /\ sync.exit = 1 /\ sync.file = sync.before
            \/ /\ sync.exit = 0
               /\ sync.file.images = <<>>
               /\ SortedCopy(sync.file.tags, sync.got)
  /\ TagsFailed =>
       /\ sync.pc = "exit"
       /\ sync.exit = 1
       /\ sync.file = sync.before
       /\ sync.fetched = <<[url |-> "/tags", st |-> "failed"]>>

\* the tags b, a were fetched, /images answered 500, and the file holds a, b and
\* no images where an older file was
C25_Witness ==
  /\ sync.pc = "exit" /\ sync.exit = 0
  /\ ImagesFailed
  /\ sync.before = OldFile
  /\ sync.got = << <<"b">>, <<"a">> >>
  /\ sync.file = [tags |-> << <<"a">>, <<"b">> >>, images |-> <<>>, lastSynced |-> "now"]
  /\ \E k \in 1..Len(sync.log) :
       /\ sync.log[k].line = "Image metadata endpoint not available"
       /\ sync.log[k].message.status = 500

\* the visible items of the grid, each with its order
Shown(style) ==
  [k \in {k2 \in 1..Len(style) : style[k2].display = ""} |-> style[k].order]

\* the items a tag filter shows
TagShown(tag) ==
  [k \in {k2 \in 1..Len(GalleryItems) :
            tag = <<"a", "l", "l">>
              \/ ArrayIncludes(SplitTags(Str(GalleryItems[k2].tags)), tag)} |-> <<>>]

\* the items the results of a search show, in the order of the results
ResultShown(list) ==
  [k \in {k2 \in 1..Len(GalleryItems) : \E q \in 1..Len(list) : list[q] = GalleryItems[k2].imageId}
     |-> <<ResultIndex(list, GalleryItems[k].imageId)>>]

\* every search has been answered and no debounce timer is set
Quiet == ~gallery.timer.set /\ \A k \in 1..Len(gallery.searches) : gallery.searches[k].st # "pending"

\* a search is in flight
Searching == \E k \in 1..Len(gallery.searches) : gallery.searches[k].st = "pending"

\* the view the visitor's most recent action asks for
LatestView ==
  IF gallery.last.kind = "tag" THEN TagShown(gallery.last.tag)
  ELSE IF Len(gallery.last.query) < 2 THEN TagShown(gallery.activeTag)
  ELSE LET latest == gallery.searches[Len(gallery.searches)]
       IN IF latest.st = "ok" THEN ResultShown(latest.ret)
          ELSE Shown(localSearch(gallery, latest.query).style)

\* C29: once every response has arrived, the visible items and their order are
\* those of the visitor's most recent action: the latest search's own response,
\* or the tag filter clicked after it.
C29_LatestView == Quiet => Shown(gallery.style) = LatestView

\* C30: the grid carries aria-busy exactly while a search is in flight.
C30_BusyWhileSearching == gallery.busy <=> Searching

====
